---- MODULE Spec2Model ----
(***************************************************************************)
(* Model of the commit-message inspection engine (src/src/inspection.ts).  *)
(* A string is a sequence of one-character strings; an error message is a  *)
(* record naming the template of the message and the values interpolated   *)
(* into it.                                                                *)
(***************************************************************************)
EXTENDS Integers, Sequences, FiniteSets, TLC

VARIABLES message, additionalVerbs, allowOneLiners, pc, result

vars == <<message, additionalVerbs, allowOneLiners, pc, result>>

-----------------------------------------------------------------------------
(* Characters and the JavaScript string primitives the code uses.          *)

UpperSeq ==
  <<"A","B","C","D","E","F","G","H","I","J","K","L","M",
    "N","O","P","Q","R","S","T","U","V","W","X","Y","Z">>

LowerSeq ==
  <<"a","b","c","d","e","f","g","h","i","j","k","l","m",
    "n","o","p","q","r","s","t","u","v","w","x","y","z">>

Upper == {UpperSeq[i] : i \in 1..26}

Lower == {LowerSeq[i] : i \in 1..26}

Digit == {"0","1","2","3","4","5","6","7","8","9"}

IsLetter(c) == c \in Upper \cup Lower

IsWordChar(c) == c \in Upper \cup Lower \cup Digit \cup {"_"}

IsSpace(c) == c \in {" ", "\t", "\n", "\r"}

toLowerCaseChar(c) ==
  IF c \in Upper THEN LowerSeq[CHOOSE i \in 1..26 : UpperSeq[i] = c] ELSE c

toLowerCase(s) == [i \in 1..Len(s) |-> toLowerCaseChar(s[i])]

AllIn(s, from, to, P(_)) == \A i \in from..to : P(s[i])

endsWith(s, c) == Len(s) > 0 /\ s[Len(s)] = c

StartsWithAt(s, at, lit) ==
  /\ at + Len(lit) - 1 <= Len(s)
  /\ \A i \in 1..Len(lit) : s[at + i - 1] = lit[i]

trim(s) ==
  IF \A i \in 1..Len(s) : IsSpace(s[i]) THEN <<>>
  ELSE LET first == CHOOSE i \in 1..Len(s) :
                      /\ ~IsSpace(s[i])
                      /\ \A j \in 1..(i-1) : IsSpace(s[j])
           last  == CHOOSE i \in 1..Len(s) :
                      /\ ~IsSpace(s[i])
                      /\ \A j \in (i+1)..Len(s) : IsSpace(s[j])
       IN SubSeq(s, first, last)

JsonEscape(c) ==
  CASE c = "\"" -> <<"\\", "\"">>
    [] c = "\\" -> <<"\\", "\\">>
    [] c = "\n" -> <<"\\", "n">>
    [] c = "\r" -> <<"\\", "r">>
    [] c = "\t" -> <<"\\", "t">>
    [] OTHER    -> <<c>>

RECURSIVE JsonBody(_)
JsonBody(s) ==
  IF s = <<>> THEN <<>> ELSE JsonEscape(Head(s)) \o JsonBody(Tail(s))

JSONstringify(s) == <<"\"">> \o JsonBody(s) \o <<"\"">>

\* An empty string has no segment at all.
RECURSIVE split_EmptyGivesNone(_, _)
split_EmptyGivesNone(s, sep) ==
  IF s = <<>> THEN <<>>
  ELSE IF \A i \in 1..Len(s) : s[i] # sep THEN <<s>>
  ELSE LET i == CHOOSE k \in 1..Len(s) :
                  s[k] = sep /\ \A j \in 1..(k-1) : s[j] # sep
       IN <<SubSeq(s, 1, i - 1)>>
            \o split_EmptyGivesNone(SubSeq(s, i + 1, Len(s)), sep)

RECURSIVE split(_, _)
split(s, sep) ==
  IF \A i \in 1..Len(s) : s[i] # sep THEN <<s>>
  ELSE LET i == CHOOSE k \in 1..Len(s) :
                  s[k] = sep /\ \A j \in 1..(k-1) : s[j] # sep
       IN <<SubSeq(s, 1, i - 1)>> \o split(SubSeq(s, i + 1, Len(s)), sep)

-----------------------------------------------------------------------------
(* Error messages: one constructor per template string of the code.        *)

Err(kind, nums, text) == [kind |-> kind, nums |-> nums, text |-> text]

TooFewLinesError(n) == Err("tooFewLines", <<n>>, <<>>)

TooFewLinesMultiError(n) == Err("tooFewLinesMulti", <<n>>, <<>>)

SeparatorError(n) == Err("separator", <<n>>, <<>>)

SubjectLengthError(got, text) == Err("subjectLength", <<got>>, JSONstringify(text))

CapitalizedVerbError == Err("capitalizedVerb", <<>>, <<>>)

ImperativeMoodError(word) == Err("imperativeMood", <<>>, JSONstringify(word))

ImperativeMoodAdditionalError(word) ==
  Err("imperativeMoodAdditional", <<>>, JSONstringify(word))

TrailingDotError == Err("trailingDot", <<>>, <<>>)

NoBodyLinesError == Err("noBodyLines", <<>>, <<>>)

EmptyBodyError == Err("emptyBody", <<>>, <<>>)

BodyLengthError(i, line) ==
  Err("bodyLength", <<i + 3, i + 1, Len(line)>>, JSONstringify(line))

DuplicateFirstWordError(word) == Err("duplicateFirstWord", <<>>, JSONstringify(word))

MessageEmptyError == Err("messageEmpty", <<>>, <<>>)

\* The last character of the rendered message: every template ends in fixed
\* text or in a decimal number.
LastCharOf(e) ==
  CASE e.kind \in {"tooFewLines", "tooFewLinesMulti", "separator"} -> "0"
    [] e.kind = "subjectLength" -> ")"
    [] e.kind = "emptyBody" -> "y"
    [] OTHER -> "."

Return(errors) == [tag |-> "return", errors |-> errors]

Throw(what, text) == [tag |-> "throw", errors |-> <<Err(what, <<>>, text)>>]

NoResult == [tag |-> "none", errors |-> <<>>]

Undefined == [subject |-> <<"undefined">>, bodyLines |-> <<>>, defined |-> FALSE]

-----------------------------------------------------------------------------
(* splitLines and splitSubjectBody.                                        *)

StripTrailingCR(line) ==
  IF endsWith(line, "\r") THEN SubSeq(line, 1, Len(line) - 1) ELSE line

splitLines(msg) ==
  LET lines == split(msg, "\n")
  IN [i \in 1..Len(lines) |-> StripTrailingCR(lines[i])]

\* The separator line is not looked at.
splitSubjectBody_NoSeparatorCheck(lines) ==
  IF Len(lines) = 0 \/ Len(lines) = 1
    THEN [subjectBody |-> Undefined, errors |-> <<TooFewLinesError(Len(lines))>>]
  ELSE IF Len(lines) = 2
    THEN [subjectBody |-> Undefined,
          errors |-> <<TooFewLinesMultiError(Len(lines))>>]
  ELSE [subjectBody |-> [subject |-> lines[1],
                         bodyLines |-> SubSeq(lines, 3, Len(lines)),
                         defined |-> TRUE],
        errors |-> <<>>]

\* Two lines are reported like zero or one line.
splitSubjectBody_TwoAsOne(lines) ==
  IF Len(lines) <= 2
    THEN [subjectBody |-> Undefined, errors |-> <<TooFewLinesError(Len(lines))>>]
  ELSE [subjectBody |-> [subject |-> lines[1],
                         bodyLines |-> SubSeq(lines, 3, Len(lines)),
                         defined |-> TRUE],
        errors |-> IF Len(lines[2]) # 0
                     THEN <<SeparatorError(Len(lines[2]))>>
                     ELSE <<>>]

splitSubjectBody(lines) ==
  IF Len(lines) = 0 \/ Len(lines) = 1
    THEN [subjectBody |-> Undefined, errors |-> <<TooFewLinesError(Len(lines))>>]
  ELSE IF Len(lines) = 2
    THEN [subjectBody |-> Undefined,
          errors |-> <<TooFewLinesMultiError(Len(lines))>>]
  ELSE [subjectBody |-> [subject |-> lines[1],
                         bodyLines |-> SubSeq(lines, 3, Len(lines)),
                         defined |-> TRUE],
        errors |-> IF Len(lines[2]) # 0
                     THEN <<SeparatorError(Len(lines[2]))>>
                     ELSE <<>>]

-----------------------------------------------------------------------------
(* The regular expressions.  A regular expression matches when some        *)
(* decomposition of the string fits it, so each test is an existential     *)
(* over the positions where its parts begin and end.                       *)

NoMatch == [matched |-> FALSE, length |-> 0, word |-> <<>>]

\* ^([A-Z][a-z]*)[^a-zA-Z] : the greedy run of lower-case letters must be
\* followed by a character that is not a letter.
capitalizedWordRe(s) ==
  IF Len(s) >= 1 /\ s[1] \in Upper
    THEN LET k == CHOOSE n \in 1..Len(s) :
                    /\ \A i \in 2..n : s[i] \in Lower
                    /\ (n = Len(s) \/ s[n + 1] \notin Lower)
         IN IF k + 1 <= Len(s) /\ ~IsLetter(s[k + 1])
              THEN [matched |-> TRUE, length |-> 2, word |-> SubSeq(s, 1, k)]
              ELSE NoMatch
    ELSE NoMatch

\* \s?\(\s*#[a-zA-Z_0-9]+\s*\)$ matched with its first character at p.
HashCodeMatchesAt(s, p) ==
  \E q \in {p, p + 1} :
    /\ q = p + 1 => IsSpace(s[p])
    /\ q <= Len(s) /\ s[q] = "("
    /\ \E a \in (q + 1)..Len(s) : \E b \in (a + 1)..(Len(s) - 1) :
         /\ AllIn(s, q + 1, a - 1, IsSpace)
         /\ s[a] = "#"
         /\ AllIn(s, a + 1, b, IsWordChar)
         /\ AllIn(s, b + 1, Len(s) - 1, IsSpace)
         /\ s[Len(s)] = ")"

\* The suffix is left in place.
suffixHashCodeRe_NoStrip(s) == s

\* subject.replace(suffixHashCodeRe, ''): the leftmost match is removed.
suffixHashCodeRe(s) ==
  IF \E p \in 1..Len(s) : HashCodeMatchesAt(s, p)
    THEN LET p == CHOOSE k \in 1..Len(s) :
                    /\ HashCodeMatchesAt(s, k)
                    /\ \A j \in 1..(k - 1) : ~HashCodeMatchesAt(s, j)
         IN SubSeq(s, 1, p - 1)
    ELSE s

NotBlank(c) == c # " "

\* [^ ]+://[^ ]+$ matched with its first character at from.
UrlMatchesFrom(s, from) ==
  /\ AllIn(s, from, Len(s), NotBlank)
  /\ \E i \in (from + 1)..(Len(s) - 3) : StartsWithAt(s, i, <<":", "/", "/">>)

urlLineRe(s) == UrlMatchesFrom(s, 1)

NotClosingBracket(c) == c # "]"

\* ^\[[^\]]+]\s*:\s*[^ ]+://[^ ]+$
linkDefinitionRe(s) ==
  /\ Len(s) >= 1 /\ s[1] = "["
  /\ \E j \in 3..Len(s) : \E c \in (j + 1)..Len(s) : \E u \in (c + 1)..Len(s) :
       /\ AllIn(s, 2, j - 1, NotClosingBracket)
       /\ s[j] = "]"
       /\ AllIn(s, j + 1, c - 1, IsSpace)
       /\ s[c] = ":"
       /\ AllIn(s, c + 1, u - 1, IsSpace)
       /\ UrlMatchesFrom(s, u)

IsRefChar(c) ==
  c \notin {"\t", "\n", "\r", " ", "~", "^", ":", "?", "*", "["}

MergePrefix == <<"M","e","r","g","e"," ","b","r","a","n","c","h"," ","'">>

MergeInfix == <<"'"," ","i","n","t","o"," ">>

\* ^Merge branch '[^\000-\037\177 ~^:?*[]+' into [^\000-\037\177 ~^:?*[]+$
mergeMessageRe(s) ==
  /\ StartsWithAt(s, 1, MergePrefix)
  /\ \E j \in (Len(MergePrefix) + 1)..Len(s) :
       /\ AllIn(s, Len(MergePrefix) + 1, j, IsRefChar)
       /\ StartsWithAt(s, j + 1, MergeInfix)
       /\ j + Len(MergeInfix) + 1 <= Len(s)
       /\ AllIn(s, j + Len(MergeInfix) + 1, Len(s), IsRefChar)

-----------------------------------------------------------------------------
(* checkSubject.                                                           *)

SubjectLimit == 50

BodyLimit == 72

\* mostFrequentEnglishVerbs.SET: the built-in list of imperative verbs.
SET ==
  { <<"c","h","a","n","g","e">>, <<"d","o">>, <<"u","n","i","f","y">>,
    <<"m","e","r","g","e">> }

Has(verbs, word) == \E i \in 1..Len(verbs) : verbs[i] = word

IsBadVerb(verb) == Len(verb) = 0 \/ verb # toLowerCase(verb)

subjectExceedsLimit(subjectWoCode) == Len(subjectWoCode) > SubjectLimit

\* The additional verbs are not consulted.
isKnownVerb_BuiltinOnly(word, verbs) == toLowerCase(word) \in SET

isKnownVerb(word, verbs) ==
  toLowerCase(word) \in SET \/ Has(verbs, toLowerCase(word))

subjectLengthError(subject, subjectWoCode) ==
  SubjectLengthError(Len(subject), subjectWoCode)

verbErrors(subjectWoCode, verbs) ==
  LET match == capitalizedWordRe(subjectWoCode)
  IN IF ~match.matched THEN Return(<<CapitalizedVerbError>>)
     ELSE IF match.length < 2 THEN Throw("noGroup", <<>>)
     ELSE IF ~isKnownVerb(match.word, verbs)
       THEN IF Len(verbs) = 0
              THEN Return(<<ImperativeMoodError(match.word)>>)
              ELSE Return(<<ImperativeMoodAdditionalError(match.word)>>)
     ELSE Return(<<>>)

\* The rules after the first violated one are not evaluated.
checkSubject_StopAtFirst(subject, verbs) ==
  IF \E i \in 1..Len(verbs) : IsBadVerb(verbs[i])
    THEN LET i == CHOOSE k \in 1..Len(verbs) :
                    /\ IsBadVerb(verbs[k])
                    /\ \A j \in 1..(k - 1) : ~IsBadVerb(verbs[j])
         IN IF Len(verbs[i]) = 0 THEN Throw("emptyVerb", <<>>)
            ELSE Throw("nonLowerVerb", verbs[i])
  ELSE
    LET subjectWoCode == suffixHashCodeRe(subject)
        verbResult == verbErrors(subjectWoCode, verbs)
    IN IF subjectExceedsLimit(subjectWoCode)
         THEN Return(<<subjectLengthError(subject, subjectWoCode)>>)
       ELSE IF verbResult.tag = "throw" \/ Len(verbResult.errors) > 0
         THEN verbResult
       ELSE IF endsWith(subjectWoCode, ".") THEN Return(<<TrailingDotError>>)
       ELSE Return(<<>>)

checkSubject(subject, verbs) ==
  IF \E i \in 1..Len(verbs) : IsBadVerb(verbs[i])
    THEN LET i == CHOOSE k \in 1..Len(verbs) :
                    /\ IsBadVerb(verbs[k])
                    /\ \A j \in 1..(k - 1) : ~IsBadVerb(verbs[j])
         IN IF Len(verbs[i]) = 0 THEN Throw("emptyVerb", <<>>)
            ELSE Throw("nonLowerVerb", verbs[i])
  ELSE
    LET subjectWoCode == suffixHashCodeRe(subject)
        lengthErrors ==
          IF subjectExceedsLimit(subjectWoCode)
            THEN <<subjectLengthError(subject, subjectWoCode)>>
            ELSE <<>>
        verbResult == verbErrors(subjectWoCode, verbs)
        dotErrors ==
          IF endsWith(subjectWoCode, ".") THEN <<TrailingDotError>> ELSE <<>>
    IN IF verbResult.tag = "throw" THEN verbResult
       ELSE Return(lengthErrors \o verbResult.errors \o dotErrors)

-----------------------------------------------------------------------------
(* checkBody.                                                              *)

isExemptLine(line) == urlLineRe(line) \/ linkDefinitionRe(line)

\* The limit is off by one.
bodyLineExceedsLimit_OffByOne(line) == Len(line) >= BodyLimit

bodyLineExceedsLimit(line) == Len(line) > BodyLimit

\* An exempt line ends the loop instead of being skipped.
RECURSIVE bodyLengthErrors_Break(_, _)
bodyLengthErrors_Break(bodyLines, i) ==
  IF i >= Len(bodyLines) THEN <<>>
  ELSE LET line == bodyLines[i + 1]
       IN IF isExemptLine(line) THEN <<>>
          ELSE (IF bodyLineExceedsLimit(line)
                  THEN <<BodyLengthError(i, line)>>
                  ELSE <<>>) \o bodyLengthErrors_Break(bodyLines, i + 1)

\* The loop over bodyLines.entries(), from the 0-based index i on.
RECURSIVE bodyLengthErrors(_, _)
bodyLengthErrors(bodyLines, i) ==
  IF i >= Len(bodyLines) THEN <<>>
  ELSE LET line == bodyLines[i + 1]
       IN IF isExemptLine(line) THEN bodyLengthErrors(bodyLines, i + 1)
          ELSE (IF bodyLineExceedsLimit(line)
                  THEN <<BodyLengthError(i, line)>>
                  ELSE <<>>) \o bodyLengthErrors(bodyLines, i + 1)

\* The two first words are not compared.
duplicateFirstWordErrors_NoComparison(subject, bodyLines) ==
  LET bodyFirstWordMatch == capitalizedWordRe(bodyLines[1])
      subjectFirstWordMatch == capitalizedWordRe(subject)
  IN IF /\ bodyFirstWordMatch.matched
        /\ subjectFirstWordMatch.matched
        /\ subjectFirstWordMatch.length > 0
       THEN <<DuplicateFirstWordError(subjectFirstWordMatch.word)>>
       ELSE <<>>

duplicateFirstWordErrors(subject, bodyLines) ==
  LET bodyFirstWordMatch == capitalizedWordRe(bodyLines[1])
      subjectFirstWordMatch == capitalizedWordRe(subject)
  IN IF /\ bodyFirstWordMatch.matched
        /\ subjectFirstWordMatch.matched
        /\ subjectFirstWordMatch.length > 0
        /\ toLowerCase(subjectFirstWordMatch.word)
             = toLowerCase(bodyFirstWordMatch.word)
       THEN <<DuplicateFirstWordError(subjectFirstWordMatch.word)>>
       ELSE <<>>

\* The single blank line does not end the check.
checkBody_NoShortCircuit(subject, bodyLines) ==
  IF Len(bodyLines) = 0 THEN <<NoBodyLinesError>>
  ELSE (IF Len(bodyLines) = 1 /\ trim(bodyLines[1]) = <<>>
          THEN <<EmptyBodyError>>
          ELSE <<>>)
         \o bodyLengthErrors(bodyLines, 0)
         \o duplicateFirstWordErrors(subject, bodyLines)

\* Every body made of blank lines only is reported as empty.
checkBody_AnyBlankBody(subject, bodyLines) ==
  IF Len(bodyLines) = 0 THEN <<NoBodyLinesError>>
  ELSE IF \A i \in 1..Len(bodyLines) : trim(bodyLines[i]) = <<>>
    THEN <<EmptyBodyError>>
  ELSE bodyLengthErrors(bodyLines, 0)
         \o duplicateFirstWordErrors(subject, bodyLines)

checkBody(subject, bodyLines) ==
  IF Len(bodyLines) = 0 THEN <<NoBodyLinesError>>
  ELSE IF Len(bodyLines) = 1 /\ trim(bodyLines[1]) = <<>>
    THEN <<EmptyBodyError>>
  ELSE bodyLengthErrors(bodyLines, 0)
         \o duplicateFirstWordErrors(subject, bodyLines)

-----------------------------------------------------------------------------
(* check.                                                                  *)

\* The flag is not consulted.
isOneLiner_IgnoreFlag(lines, allow) == Len(lines) = 1

isOneLiner(lines, allow) == Len(lines) = 1 /\ allow

postCondition(r) ==
  IF r.tag = "return" /\ \E i \in 1..Len(r.errors) : LastCharOf(r.errors[i]) = "\n"
    THEN Throw("errorEndsInNewline", <<>>)
    ELSE r

check(msg, verbs, allow) ==
  IF mergeMessageRe(msg) THEN Return(<<>>)
  ELSE
    LET lines == splitLines(msg)
    IN IF Len(lines) = 0 THEN Return(<<MessageEmptyError>>)
       ELSE IF isOneLiner(lines, allow)
         THEN postCondition(checkSubject(lines[1], verbs))
       ELSE
         LET maybeSubjectBody == splitSubjectBody(lines)
         IN IF Len(maybeSubjectBody.errors) > 0
              THEN postCondition(Return(maybeSubjectBody.errors))
            ELSE IF ~maybeSubjectBody.subjectBody.defined
              THEN Throw("undefinedSubjectBody", <<>>)
            ELSE
              LET subjectBody == maybeSubjectBody.subjectBody
                  subjectResult == checkSubject(subjectBody.subject, verbs)
              IN IF subjectResult.tag = "throw" THEN subjectResult
                 ELSE postCondition(Return(
                        subjectResult.errors
                          \o checkBody(subjectBody.subject,
                                       subjectBody.bodyLines)))

-----------------------------------------------------------------------------
(* The inputs: messages assembled from lines, lines assembled from a head, *)
(* a run of filler characters and a tail.                                  *)

MaxOver == 1

MaxBodyLines == 2

Pad(c, n) == [i \in 1..n |-> c]

\* A line of n characters that starts with head, followed by tail.
Line(head, c, n, tail) == head \o Pad(c, n - Len(head)) \o tail

RECURSIVE JoinLines(_)
JoinLines(lines) ==
  IF Len(lines) = 0 THEN <<>>
  ELSE IF Len(lines) = 1 THEN lines[1]
  ELSE lines[1] \o <<"\n">> \o JoinLines(Tail(lines))

SeqsUpTo(S, n) == UNION {[1..k -> S] : k \in 1..n}

ChangeHead == <<"C","h","a","n","g","e"," ">>

ReplacedHead == <<"R","e","p","l","a","c","e","d"," ">>

TableHead == <<"T","a","b","l","e"," ">>

SomeClassHead == <<"S","o","m","e","C","l","a","s","s"," ">>

HashTail == <<" ","(","#","4","3",")">>

SpacedHashTail == <<"("," ","#","a","_","1"," ",")">>

BrokenHashTail == <<" ","(","#"," ","4","3",")">>

DotTail == <<".">>

SubjectHeads == {ChangeHead, ReplacedHead, TableHead, SomeClassHead}

SubjectTails ==
  {<<>>, DotTail, HashTail, DotTail \o HashTail, <<" ">> \o HashTail,
   SpacedHashTail, BrokenHashTail}

SubjectLengths == {SubjectLimit - 40} \cup (SubjectLimit..(SubjectLimit + MaxOver))

Subjects ==
  {Line(h, "x", n, t) : h \in SubjectHeads, n \in SubjectLengths,
                         t \in SubjectTails}
    \cup {<<"C","h","a","n","g","e">>, <<"C","h","a","n","g","e">> \o HashTail}

ShortBodyLine == <<"I","t"," ","i","s"," ","s","o",".">>

ChangeBodyLine == <<"C","h","a","n","g","e"," ","i","t",".">>

UrlHead == <<"h","t","t","p",":","/","/">>

LinkHead == <<"[","a"," ","1","]"," ",":"," ">> \o UrlHead

SeeUrlHead == <<"s","e","e"," ">> \o UrlHead

BodyLengths == BodyLimit..(BodyLimit + MaxOver)

BodyLineSet ==
  {ShortBodyLine, ChangeBodyLine, <<>>}
    \cup {Line(<<"I","t"," ">>, "x", n, <<>>) : n \in BodyLengths}
    \cup {Line(h, "a", BodyLimit + MaxOver, <<>>) :
            h \in {UrlHead, LinkHead, SeeUrlHead}}
    \cup {Pad(" ", BodyLimit + MaxOver)}

TableVerb == <<"t","a","b","l","e">>

VerbLists ==
  {<<>>, <<<<"r","e","w","r","a","p">>, TableVerb>>,
   <<TableVerb, <<"T","a","b","l","e">>>>, <<<<>>>>}

\* Subjects alone and subjects with a well-formed one-line body.
SubjectMessages ==
  Subjects \cup {JoinLines(<<s, <<>>, ShortBodyLine>>) : s \in Subjects}

\* Well-structured messages with every body of up to MaxBodyLines lines.
BodySubjects ==
  {Line(ChangeHead, "x", 10, <<>>), <<"C","h","a","n","g","e">> \o HashTail,
   Line(ChangeHead, "x", SubjectLimit + MaxOver, DotTail)}

BodyMessages ==
  {JoinLines(<<s, <<>>>> \o b) :
     s \in BodySubjects, b \in SeqsUpTo(BodyLineSet, MaxBodyLines)}

MergeLine ==
  MergePrefix \o <<"a","/","b">> \o MergeInfix \o <<"c","-","d">>

StructureSubjects ==
  {Line(ChangeHead, "x", 10, <<>>),
   Line(ReplacedHead, "x", SubjectLimit + MaxOver, DotTail),
   MergeLine, MergeLine \o <<" ", "e">>, <<>>}

StructureLines ==
  {<<>>, <<"\r">>, <<"-","-","-">>, ShortBodyLine, ShortBodyLine \o <<"\r">>,
   Line(<<"I","t"," ">>, "x", BodyLimit + MaxOver, <<>>)}

\* Messages of one to MaxBodyLines + 1 lines, with and without carriage
\* returns, merge messages among them.
Messages ==
  {JoinLines(<<s>> \o rest) :
     s \in StructureSubjects,
     rest \in {<<>>} \cup SeqsUpTo(StructureLines, MaxBodyLines)}
    \cup {s \o <<"\r">> : s \in StructureSubjects}

-----------------------------------------------------------------------------
(* The state machine: the inputs are drawn, then check is applied.         *)

TypeOK ==
  /\ pc \in {"ready", "done"}
  /\ allowOneLiners \in BOOLEAN
  /\ result.tag \in {"none", "return", "throw"}

InitWith(msgs, verbLists) ==
  /\ message \in msgs
  /\ additionalVerbs \in verbLists
  /\ allowOneLiners \in BOOLEAN
  /\ pc = "ready"
  /\ result = NoResult

\* The bodies are checked without additional verbs: checkBody does not read
\* them.
Init ==
  \/ InitWith(Messages \cup SubjectMessages, VerbLists)
  \/ InitWith(BodyMessages, {<<>>})

Check ==
  /\ pc = "ready"
  /\ result' = check(message, additionalVerbs, allowOneLiners)
  /\ pc' = "done"
  /\ UNCHANGED <<message, additionalVerbs, allowOneLiners>>

Next == Check

Spec == Init /\ [][Next]_vars

-----------------------------------------------------------------------------
(* Vocabulary of the properties.                                           *)

Done == pc = "done"

Returned == result.tag = "return"

Lines == splitLines(message)

Body == SubSeq(Lines, 3, Len(Lines))

\* Some prefix of the message is a merge message.
BeginsWithMergePattern ==
  \E k \in 1..Len(message) : mergeMessageRe(SubSeq(message, 1, k))

NonMerge == ~BeginsWithMergePattern

BadWhitelist == \E i \in 1..Len(additionalVerbs) : IsBadVerb(additionalVerbs[i])

HasKind(kinds) == \E i \in 1..Len(result.errors) : result.errors[i].kind \in kinds

ImperativeKinds == {"imperativeMood", "imperativeMoodAdditional"}

SubjectKinds ==
  {"subjectLength", "capitalizedVerb", "trailingDot"} \cup ImperativeKinds

\* check has run the Subject Checker on the first line and it has returned.
SubjectChecked ==
  /\ Done /\ Returned /\ NonMerge
  /\ \/ Len(Lines) = 1 /\ allowOneLiners
     \/ Len(Lines) >= 3 /\ Lines[2] = <<>>

StrippedSubject == suffixHashCodeRe(Lines[1])

\* check has run the Body Checker on the lines after the separator.
BodyChecked ==
  /\ Done /\ Returned /\ NonMerge
  /\ Len(Lines) >= 3 /\ Lines[2] = <<>>

SingleBlankBody == Len(Body) = 1 /\ \A k \in 1..Len(Body[1]) : IsSpace(Body[1][k])

\* The body length errors of the report that cite the body line number n.
LengthErrorsCiting(n) ==
  {i \in 1..Len(result.errors) :
     result.errors[i].kind = "bodyLength" /\ result.errors[i].nums[2] = n}

-----------------------------------------------------------------------------
(* C1..C10.                                                                *)

\* C1: a message that begins with the merge pattern "Merge branch 'X' into Y"
\* gets the empty report, whatever follows the pattern and whatever the
\* whitelist and the flag.
C1_MergeExemptWhateverFollows ==
  (Done /\ BeginsWithMergePattern) => result = Return(<<>>)

\* C2: with a whitelist that holds an empty or a non-lower-case entry, check
\* aborts with a thrown error for every message and flag and never returns an
\* error list.
C2_BadWhitelistAlwaysAborts ==
  (Done /\ BadWhitelist) => result.tag = "throw"

\* C3: when the hash-suffix-stripped subject starts with a capitalized word,
\* the imperative-mood error is emitted exactly when the lower-cased word is
\* in neither the built-in verbs nor the additional verbs; the
\* capitalized-verb error and the imperative-mood error never come together.
C3_ImperativeMoodIffUnknownVerb ==
  SubjectChecked =>
    LET match == capitalizedWordRe(StrippedSubject)
        word == toLowerCase(match.word)
    IN /\ ~(HasKind({"capitalizedVerb"}) /\ HasKind(ImperativeKinds))
       /\ match.matched =>
            /\ ~HasKind({"capitalizedVerb"})
            /\ HasKind(ImperativeKinds)
                 <=> (word \notin SET /\ ~Has(additionalVerbs, word))

C3_Witness ==
  /\ SubjectChecked
  /\ capitalizedWordRe(StrippedSubject).matched
  /\ Len(additionalVerbs) > 0
  /\ HasKind({"imperativeMoodAdditional"})

\* C4: a non-merge message of at least three logical lines whose second line
\* is not empty gets exactly one error, the separator error citing the length
\* of the second line; neither the subject nor the body is checked.
C4_SeparatorErrorStandsAlone ==
  (Done /\ NonMerge /\ Len(Lines) >= 3 /\ Lines[2] # <<>>)
    => result = Return(<<SeparatorError(Len(Lines[2]))>>)

C4_Witness ==
  /\ Done /\ NonMerge /\ Len(Lines) >= 3 /\ Lines[2] # <<>>
  /\ BadWhitelist
  /\ ~capitalizedWordRe(Lines[1]).matched
  /\ \E i \in 3..Len(Lines) : Len(Lines[i]) > BodyLimit
  /\ Returned /\ Len(result.errors) = 1

\* C5: a non-merge message of exactly one logical line gets, when one-liners
\* are allowed, the outcome of the Subject Checker on that line and no
\* structural or body error; when they are not, exactly the error "Expected at
\* least three lines (subject, empty, body), but got: 1".
C5_OneLogicalLine ==
  (Done /\ NonMerge /\ Len(Lines) = 1) =>
    IF allowOneLiners
      THEN /\ result = checkSubject(Lines[1], additionalVerbs)
           /\ Returned =>
                \A i \in 1..Len(result.errors) :
                  result.errors[i].kind \in SubjectKinds
      ELSE result = Return(<<TooFewLinesError(1)>>)

C5_Witness ==
  /\ Done /\ NonMerge /\ Len(Lines) = 1
  /\ ~allowOneLiners
  /\ ~capitalizedWordRe(Lines[1]).matched
  /\ result = Return(<<TooFewLinesError(1)>>)

\* C6: a non-merge message of exactly two logical lines gets exactly the error
\* "Expected at least three lines (subject, empty, body) in a multi-line
\* message, but got: 2", with one-liners allowed or not.
C6_TwoLogicalLines ==
  (Done /\ NonMerge /\ Len(Lines) = 2)
    => result = Return(<<TooFewLinesMultiError(2)>>)

C6_Witness ==
  /\ Done /\ NonMerge /\ Len(Lines) = 2 /\ Lines[2] = <<>>
  /\ allowOneLiners
  /\ result = Return(<<TooFewLinesMultiError(2)>>)

\* C7: every subject length error cites the length of the hash-suffix-stripped
\* subject and quotes the stripped subject.
C7_LengthErrorCitesStrippedLength ==
  (Done /\ Returned) =>
    \A i \in 1..Len(result.errors) :
      result.errors[i].kind = "subjectLength" =>
        result.errors[i]
          = SubjectLengthError(Len(StrippedSubject), StrippedSubject)

\* C8: a trailing hash-code suffix does not count toward the limit of 50
\* characters: a subject whose stripped form has at most 50 characters gets no
\* subject length error, however long the unstripped subject is.
C8_HashSuffixNotCounted ==
  SubjectChecked =>
    /\ Len(StrippedSubject) <= SubjectLimit => ~HasKind({"subjectLength"})
    /\ \A tail \in {HashTail, SpacedHashTail} :
         \A k \in 0..SubjectLimit :
           (k <= Len(Lines[1]) /\ Lines[1] = SubSeq(Lines[1], 1, k) \o tail)
             => ~HasKind({"subjectLength"})

C8_Witness ==
  /\ SubjectChecked
  /\ Len(Lines[1]) > SubjectLimit
  /\ Len(StrippedSubject) = SubjectLimit
  /\ ~HasKind({"subjectLength"})

\* C9 as stated: a body line of exactly 72 characters never triggers the body
\* length error and a body line of 73 characters always triggers it, citing
\* the count 73, the message line i+3 and the body line i+1.
C9_LongLineAlwaysReported ==
  BodyChecked =>
    \A i \in 0..(Len(Body) - 1) :
      /\ Len(Body[i + 1]) = BodyLimit => LengthErrorsCiting(i + 1) = {}
      /\ Len(Body[i + 1]) = BodyLimit + 1 =>
           \E n \in 1..Len(result.errors) :
             result.errors[n] = BodyLengthError(i, Body[i + 1])

\* C9 as amended: a body line of exactly 72 characters never triggers the
\* body length error; a body line of 73 characters that is neither a bare URL
\* nor a link definition, in a body that is not one single blank line, always
\* triggers it, citing the count 73, the message line i+3 and the body line
\* i+1.
C9_LongNonExemptLineReported ==
  BodyChecked =>
    \A i \in 0..(Len(Body) - 1) :
      /\ Len(Body[i + 1]) = BodyLimit => LengthErrorsCiting(i + 1) = {}
      /\ ( /\ Len(Body[i + 1]) = BodyLimit + 1
           /\ ~urlLineRe(Body[i + 1]) /\ ~linkDefinitionRe(Body[i + 1])
           /\ ~SingleBlankBody )
           => /\ \E n \in 1..Len(result.errors) :
                   result.errors[n] = BodyLengthError(i, Body[i + 1])
              /\ result.errors[CHOOSE n \in LengthErrorsCiting(i + 1) : TRUE].nums
                   = <<i + 3, i + 1, BodyLimit + 1>>

C9_Witness ==
  /\ BodyChecked
  /\ \E i \in 1..(Len(Body) - 1) :
       /\ Len(Body[i + 1]) = BodyLimit + 1
       /\ Len(Body[i]) = BodyLimit
       /\ LengthErrorsCiting(i) = {}
       /\ LengthErrorsCiting(i + 1) # {}

\* C10: a body line that is a bare URL or a link definition never triggers the
\* body length error, whatever its length, and the other lines longer than 72
\* characters keep their length errors, each once, numbered by their own
\* position and in ascending order.
C10_ExemptLinesOnlyExemptThemselves ==
  BodyChecked =>
    /\ \A i \in 1..Len(Body) :
         (urlLineRe(Body[i]) \/ linkDefinitionRe(Body[i]))
           => LengthErrorsCiting(i) = {}
    /\ (\E i \in 1..Len(Body) : urlLineRe(Body[i]) \/ linkDefinitionRe(Body[i]))
         => /\ \A j \in 1..Len(Body) :
                 ( /\ ~urlLineRe(Body[j]) /\ ~linkDefinitionRe(Body[j])
                   /\ Len(Body[j]) > BodyLimit )
                   => /\ Cardinality(LengthErrorsCiting(j)) = 1
                      /\ \A n \in LengthErrorsCiting(j) :
                           result.errors[n] = BodyLengthError(j - 1, Body[j])
            /\ \A m, n \in 1..Len(result.errors) :
                 ( /\ m < n
                   /\ result.errors[m].kind = "bodyLength"
                   /\ result.errors[n].kind = "bodyLength" )
                   => result.errors[m].nums[2] < result.errors[n].nums[2]

C10_Witness ==
  /\ BodyChecked
  /\ \E i \in 1..(Len(Body) - 1) :
       /\ linkDefinitionRe(Body[i]) /\ Len(Body[i]) > BodyLimit
       /\ ~urlLineRe(Body[i + 1]) /\ ~linkDefinitionRe(Body[i + 1])
       /\ Len(Body[i + 1]) > BodyLimit
       /\ LengthErrorsCiting(i) = {}
       /\ LengthErrorsCiting(i + 1) # {}

-----------------------------------------------------------------------------
(* C11..C16.                                                               *)

\* The positions of the report that hold an error of one of the kinds.
ErrorsOfKind(kinds) ==
  {i \in 1..Len(result.errors) : result.errors[i].kind \in kinds}

\* C11: for a well-structured multi-line message the duplicate-first-word
\* error is emitted exactly once when the subject and the first body line both
\* start with a capitalized-word token and the tokens are equal after
\* lower-casing, and not at all when the tokens differ or one side has none.
C11_DuplicateFirstWordExactlyOnce ==
  BodyChecked =>
    LET subjectToken == capitalizedWordRe(Lines[1])
        bodyToken == capitalizedWordRe(Body[1])
    IN IF /\ subjectToken.matched /\ bodyToken.matched
          /\ toLowerCase(subjectToken.word) = toLowerCase(bodyToken.word)
         THEN Cardinality(ErrorsOfKind({"duplicateFirstWord"})) = 1
         ELSE ErrorsOfKind({"duplicateFirstWord"}) = {}

C11_Witness ==
  /\ BodyChecked
  /\ capitalizedWordRe(Lines[1]).matched
  /\ capitalizedWordRe(Body[1]).matched
  /\ capitalizedWordRe(Lines[1]).word = capitalizedWordRe(Body[1]).word
  /\ ~capitalizedWordRe(StrippedSubject).matched
  /\ Cardinality(ErrorsOfKind({"duplicateFirstWord"})) = 1

RawLines == split(message, "\n")

\* The message with one carriage return appended to the lines numbered in S.
WithCarriageReturns(S) ==
  JoinLines([i \in 1..Len(RawLines) |->
               IF i \in S THEN RawLines[i] \o <<"\r">> ELSE RawLines[i]])

\* C12: trailing carriage returns are ignored: check returns the same report
\* for the message and for the message with one carriage return appended to
\* the end of any subset of its lines.
C12_TrailingCarriageReturnsIgnored ==
  Done =>
    \A S \in SUBSET (1..Len(RawLines)) :
      check(WithCarriageReturns(S), additionalVerbs, allowOneLiners) = result

BodyKinds == {"bodyLength", "duplicateFirstWord", "emptyBody", "noBodyLines"}

\* The rule behind an error: the two imperative-mood messages state one rule.
RuleOf(kind) == IF kind \in ImperativeKinds THEN "imperativeMood" ELSE kind

\* The subject rules that the stripped subject violates, in the rule order.
ViolatedSubjectRules ==
  LET match == capitalizedWordRe(StrippedSubject)
      word == toLowerCase(match.word)
  IN (IF Len(StrippedSubject) > SubjectLimit THEN <<"subjectLength">> ELSE <<>>)
       \o (IF ~match.matched THEN <<"capitalizedVerb">>
           ELSE IF word \notin SET /\ ~Has(additionalVerbs, word)
             THEN <<"imperativeMood">>
           ELSE <<>>)
       \o (IF endsWith(StrippedSubject, ".") THEN <<"trailingDot">> ELSE <<>>)

\* C13: the report of a well-structured multi-line message is the subject
\* errors (length, then capitalized-verb or imperative-mood, then trailing
\* dot, each present exactly when its rule is violated) followed by the body
\* errors (length errors in ascending line order, then the
\* duplicate-first-word error); no body error precedes a subject error.
C13_SubjectErrorsThenBodyErrors ==
  BodyChecked =>
    LET n == Len(ViolatedSubjectRules)
    IN /\ Len(result.errors) >= n
       /\ \A i \in 1..n :
            i <= Len(result.errors)
              => RuleOf(result.errors[i].kind) = ViolatedSubjectRules[i]
       /\ \A i \in (n + 1)..Len(result.errors) :
            result.errors[i].kind \in BodyKinds
       /\ \A i, j \in ErrorsOfKind({"bodyLength"}) :
            i < j => result.errors[i].nums[2] < result.errors[j].nums[2]
       /\ \A i \in ErrorsOfKind({"duplicateFirstWord"}) : i = Len(result.errors)
       /\ ~SingleBlankBody =>
            \A j \in 1..Len(Body) :
              LengthErrorsCiting(j) # {}
                <=> ( /\ ~urlLineRe(Body[j]) /\ ~linkDefinitionRe(Body[j])
                      /\ Len(Body[j]) > BodyLimit )

C13_Witness ==
  /\ BodyChecked
  /\ Len(result.errors) = 4
  /\ result.errors[1].kind = "subjectLength"
  /\ result.errors[2].kind = "trailingDot"
  /\ result.errors[3].kind = "bodyLength"
  /\ result.errors[4].kind = "duplicateFirstWord"

\* C14: when the body is exactly one line that is blank after trimming, the
\* Body Checker contributes exactly 'Unexpected empty body': no body length
\* error, even for more than 72 blanks, and no duplicate-first-word error; the
\* subject errors are still reported, before it.
C14_SingleBlankBodyShortCircuits ==
  (BodyChecked /\ SingleBlankBody) =>
    LET n == Len(result.errors)
    IN /\ n >= 1
       /\ result.errors[n] = EmptyBodyError
       /\ ErrorsOfKind(BodyKinds) = {n}
       /\ [i \in 1..(n - 1) |-> RuleOf(result.errors[i].kind)]
            = ViolatedSubjectRules

C14_Witness ==
  /\ BodyChecked /\ SingleBlankBody
  /\ Len(Body[1]) > BodyLimit
  /\ result = Return(<<CapitalizedVerbError, EmptyBodyError>>)

\* C15: splitting any message, the empty string included, yields at least one
\* logical line, so check never returns 'The message is empty.'; the empty
\* string is a one-line message: 'Expected at least three lines ... but got:
\* 1' when one-liners are disallowed, a subject that does not start with a
\* capitalized verb when they are allowed (the Subject Checker's whitelist
\* precondition coming first).
C15_MessageNeverEmpty ==
  Done =>
    /\ Len(Lines) >= 1
    /\ ErrorsOfKind({"messageEmpty"}) = {}
    /\ message = <<>> =>
         IF ~allowOneLiners THEN result = Return(<<TooFewLinesError(1)>>)
         ELSE IF BadWhitelist THEN result.tag = "throw"
         ELSE result = Return(<<CapitalizedVerbError>>)

C15_Witness ==
  /\ Done /\ message = <<>> /\ allowOneLiners
  /\ result = Return(<<CapitalizedVerbError>>)

\* C16 as stated: the empty-body error is reported only for a body of exactly
\* one blank line; a message with a valid subject, an empty separator and a
\* body of two or more lines that are all blank gets no empty-body error and
\* an empty report.
C16_AllBlankBodyAccepted ==
  BodyChecked =>
    /\ ErrorsOfKind({"emptyBody"}) # {} => SingleBlankBody
    /\ ( /\ ViolatedSubjectRules = <<>>
         /\ Len(Body) >= 2
         /\ \A i \in 1..Len(Body) : trim(Body[i]) = <<>> )
         => result = Return(<<>>)

\* C16 as amended: the empty-body error is reported only for a body of exactly
\* one blank line; a message with a valid subject, an empty separator and a
\* body of two or more lines that are all blank gets no empty-body error, and
\* an empty report when none of the blank lines is longer than 72 characters
\* (a longer one gets its body length error).
C16_ShortBlankBodyAccepted ==
  BodyChecked =>
    /\ ErrorsOfKind({"emptyBody"}) # {} => SingleBlankBody
    /\ ( /\ ViolatedSubjectRules = <<>>
         /\ Len(Body) >= 2
         /\ \A i \in 1..Len(Body) : trim(Body[i]) = <<>> )
         => /\ ErrorsOfKind({"emptyBody"}) = {}
            /\ (\A i \in 1..Len(Body) : Len(Body[i]) <= BodyLimit)
                 => result = Return(<<>>)
            /\ \A i \in 1..Len(Body) :
                 Len(Body[i]) > BodyLimit
                   => \E n \in 1..Len(result.errors) :
                        result.errors[n] = BodyLengthError(i - 1, Body[i])

C16_Witness ==
  /\ BodyChecked
  /\ ViolatedSubjectRules = <<>>
  /\ Len(Body) >= 2
  /\ \A i \in 1..Len(Body) : Body[i] = <<>>
  /\ result = Return(<<>>)

====
